---------------------------- MODULE Spec2Model ----------------------------
(***************************************************************************)
(* Model of msageha/prompt_generator (src/main.go).                        *)
(*                                                                         *)
(* src/main.go holds two builds of the program:                            *)
(*   "gitignore" : lines   1-289, with .gitignore matching and the          *)
(*                 encoding resolver;                                       *)
(*   "plain"     : lines 290-447, without either.                           *)
(* The variable `variant` says which build a run executes.                  *)
(*                                                                         *)
(* Text is modelled as Go models it: a string is a sequence of bytes        *)
(* (0..255).  File names, extensions and ignore patterns are sequences of   *)
(* one-character strings, so that HasPrefix, Ext, Split are computed.       *)
(* A path is the sequence of its segments; the absolute path of an entry    *)
(* is <<rootName>> \o (its root-relative segments).                         *)
(***************************************************************************)
EXTENDS Integers, Sequences, FiniteSets, TLC

(***************************************************************************)
(* Bounds of the model.                                                    *)
(***************************************************************************)
\* the number of lines standard input can deliver before end-of-input
MaxLines == 2

(***************************************************************************)
(* Generic sequence helpers (strings package).                             *)
(***************************************************************************)
Last(s) == s[Len(s)]

Front(s) == SubSeq(s, 1, Len(s) - 1)

\* slices.Contains
Contains(s, e) == \E i \in 1..Len(s) : s[i] = e

\* strings.HasPrefix
HasPrefix(s, p) == Len(s) >= Len(p) /\ SubSeq(s, 1, Len(p)) = p

\* strings.HasSuffix
HasSuffix(s, p) == Len(s) >= Len(p) /\ SubSeq(s, Len(s) - Len(p) + 1, Len(s)) = p

RECURSIVE TrimLeft(_, _)
TrimLeft(s, c) == IF s # <<>> /\ s[1] = c THEN TrimLeft(Tail(s), c) ELSE s

RECURSIVE TrimRight(_, _)
TrimRight(s, c) == IF s # <<>> /\ Last(s) = c THEN TrimRight(Front(s), c) ELSE s

\* strings.TrimSpace, for the one white-space character the inputs use
TrimSpace(s) == TrimRight(TrimLeft(s, " "), " ")

\* strings.Split(s, sep) for a one-character separator: always at least one part
RECURSIVE Split(_, _)
Split(s, sep) ==
    IF \A i \in 1..Len(s) : s[i] # sep THEN <<s>>
    ELSE LET i == CHOOSE k \in 1..Len(s) :
                      s[k] = sep /\ \A j \in 1..(k - 1) : s[j] # sep
         IN  <<SubSeq(s, 1, i - 1)>> \o Split(SubSeq(s, i + 1, Len(s)), sep)

(***************************************************************************)
(* unicode/utf8                                                            *)
(***************************************************************************)
RuneError == <<239, 191, 189>>      \* U+FFFD encoded

IsCont(b) == 128 <= b /\ b <= 191

\* utf8.DecodeRune restricted to what Valid and the UTF-8 decoder need:
\* the number of bytes of the well-formed encoding s starts with, 0 if none
RuneSize(s) ==
    IF s = <<>> THEN 0
    ELSE LET b0 == s[1] IN
         IF b0 < 128 THEN 1
         ELSE IF 194 <= b0 /\ b0 <= 223
              THEN IF Len(s) >= 2 /\ IsCont(s[2]) THEN 2 ELSE 0
         ELSE IF 224 <= b0 /\ b0 <= 239
              THEN IF /\ Len(s) >= 3
                      /\ IsCont(s[2]) /\ IsCont(s[3])
                      /\ (b0 = 224 => s[2] >= 160)
                      /\ (b0 = 237 => s[2] <= 159)
                   THEN 3 ELSE 0
         ELSE IF 240 <= b0 /\ b0 <= 244
              THEN IF /\ Len(s) >= 4
                      /\ IsCont(s[2]) /\ IsCont(s[3]) /\ IsCont(s[4])
                      /\ (b0 = 240 => s[2] >= 144)
                      /\ (b0 = 244 => s[2] <= 143)
                   THEN 4 ELSE 0
         ELSE 0

\* utf8.Valid
RECURSIVE Valid(_)
Valid(s) ==
    \/ s = <<>>
    \/ /\ RuneSize(s) > 0
       /\ Valid(SubSeq(s, RuneSize(s) + 1, Len(s)))

\* utf8.EncodeRune (a surrogate or out-of-range rune encodes as U+FFFD)
EncodeRune(r) ==
    IF r < 0 \/ r > 1114111 \/ (55296 <= r /\ r <= 57343) THEN RuneError
    ELSE IF r < 128 THEN <<r>>
    ELSE IF r < 2048 THEN <<192 + (r \div 64), 128 + (r % 64)>>
    ELSE IF r < 65536
         THEN <<224 + (r \div 4096), 128 + ((r \div 64) % 64), 128 + (r % 64)>>
    ELSE <<240 + (r \div 262144), 128 + ((r \div 4096) % 64),
           128 + ((r \div 64) % 64), 128 + (r % 64)>>


(***************************************************************************)
(* golang.org/x/text decoders, as main.go uses them (decoder.Bytes).        *)
(* A decoder turns bytes into UTF-8 and replaces every byte it cannot       *)
(* transcode by U+FFFD; it reports no error for malformed input.  The       *)
(* tables are cut down to the code points the byte samples below contain    *)
(* (ASCII, half-width katakana, the hiragana row of JIS X 0208); lead       *)
(* bytes SS2/SS3 and escape sequences do not occur in the samples.          *)
(***************************************************************************)
\* the JIS X 0208 table, row 4 (hiragana) only: 0 is "unassigned"
jis0208Decode(i) == IF 282 <= i /\ i <= 364 THEN 12353 + (i - 282) ELSE 0

jisRune(i) == IF jis0208Decode(i) = 0 THEN RuneError ELSE EncodeRune(jis0208Decode(i))

\* japanese.ShiftJIS: <<bytes written, bytes consumed>> for the head of s
ShiftJISStep(s) ==
    LET c0 == s[1] IN
    IF c0 < 128 THEN <<EncodeRune(c0), 1>>
    ELSE IF 161 <= c0 /\ c0 < 224 THEN <<EncodeRune(c0 + (65377 - 161)), 1>>
    ELSE IF c0 = 128 \/ c0 = 160 \/ c0 > 252 THEN <<RuneError, 1>>
    ELSE IF Len(s) < 2 THEN <<RuneError, 1>>
    ELSE LET c1 == s[2]
             hi == 2 * (IF c0 <= 159 THEN c0 - 112 ELSE c0 - 176) - 33
         IN  IF c1 < 64 \/ c1 = 127 THEN <<RuneError, 1>>
             ELSE IF c1 < 127 THEN <<jisRune((hi - 1) * 94 + (c1 - 64)), 2>>
             ELSE IF c1 < 159 THEN <<jisRune((hi - 1) * 94 + (c1 - 65)), 2>>
             ELSE IF c1 < 253 THEN <<jisRune(hi * 94 + (c1 - 159)), 2>>
             ELSE <<RuneError, 2>>

\* japanese.EUCJP
EUCJPStep(s) ==
    LET c0 == s[1] IN
    IF c0 < 128 THEN <<EncodeRune(c0), 1>>
    ELSE IF 161 <= c0 /\ c0 <= 254
         THEN IF Len(s) < 2 \/ s[2] < 161 \/ s[2] > 254 THEN <<RuneError, 1>>
              ELSE <<jisRune((c0 - 161) * 94 + (s[2] - 161)), 2>>
    ELSE <<RuneError, 1>>

\* japanese.ISO2022JP, in its initial (ASCII) state
ISO2022JPStep(s) ==
    IF s[1] < 128 THEN <<EncodeRune(s[1]), 1>> ELSE <<RuneError, 1>>

\* unicode.UTF8
UTF8Step(s) ==
    IF RuneSize(s) > 0 THEN <<SubSeq(s, 1, RuneSize(s)), RuneSize(s)>>
    ELSE <<RuneError, 1>>

IsSurrogate(r) == 55296 <= r /\ r <= 57343

\* unicode.UTF16(endianness, ...): one code unit (or surrogate pair) of s
UTF16Step(s, little) ==
    LET unit(i) == IF little THEN s[i + 1] * 256 + s[i] ELSE s[i] * 256 + s[i + 1]
    IN  IF Len(s) < 2 THEN <<RuneError, 1>>    \* single trailing byte
        ELSE IF ~IsSurrogate(unit(1)) THEN <<EncodeRune(unit(1)), 2>>
        ELSE IF /\ Len(s) >= 4
                /\ unit(1) < 56320
                /\ 56320 <= unit(3) /\ unit(3) <= 57343
             THEN <<EncodeRune(65536 + (unit(1) - 55296) * 1024 + (unit(3) - 56320)), 4>>
        ELSE <<RuneError, 2>>

Step(enc, s) ==
    CASE enc = "ShiftJIS"  -> ShiftJISStep(s)
      [] enc = "EUCJP"     -> EUCJPStep(s)
      [] enc = "ISO2022JP" -> ISO2022JPStep(s)
      [] enc = "UTF8"      -> UTF8Step(s)
      [] enc = "UTF16LE"   -> UTF16Step(s, TRUE)
      [] enc = "UTF16BE"   -> UTF16Step(s, FALSE)

RECURSIVE Transform(_, _)
Transform(enc, s) ==
    IF s = <<>> THEN <<>>
    ELSE Step(enc, s)[1] \o Transform(enc, SubSeq(s, Step(enc, s)[2] + 1, Len(s)))

\* enc.NewDecoder().Bytes(data): [result, err].  unicode.UseBOM lets a leading
\* byte order mark override the endianness and never demands one.
DecoderBytes(enc, data) ==
    LET bom == IF Len(data) >= 2 THEN SubSeq(data, 1, 2) ELSE <<>>
        rest == SubSeq(data, 3, Len(data))
    IN  IF enc \in {"UTF16LE", "UTF16BE"} /\ bom = <<254, 255>>
        THEN [result |-> Transform("UTF16BE", rest), err |-> FALSE]
        ELSE IF enc \in {"UTF16LE", "UTF16BE"} /\ bom = <<255, 254>>
        THEN [result |-> Transform("UTF16LE", rest), err |-> FALSE]
        ELSE [result |-> Transform(enc, data), err |-> FALSE]

(***************************************************************************)
(* The encoding resolver (main.go 48-109).                                 *)
(***************************************************************************)
\* strings.ToLower on the encoding names the runs pass
ToLower(name) ==
    CASE name = "Shift-JIS" -> "shift-jis"
      [] name = "UTF-8"     -> "utf-8"
      [] OTHER              -> name

\* getEncodingByName: [enc, err]
getEncodingByName(name) ==
    LET n == ToLower(name) IN
    IF n \in {"shift-jis", "shiftjis", "sjis"} THEN [enc |-> "ShiftJIS", err |-> FALSE]
    ELSE IF n \in {"euc-jp", "eucjp"} THEN [enc |-> "EUCJP", err |-> FALSE]
    ELSE IF n \in {"iso-2022-jp", "iso2022jp"} THEN [enc |-> "ISO2022JP", err |-> FALSE]
    ELSE IF n = "utf-16le" THEN [enc |-> "UTF16LE", err |-> FALSE]
    ELSE IF n = "utf-16be" THEN [enc |-> "UTF16BE", err |-> FALSE]
    ELSE IF n \in {"utf-8", "utf8"} THEN [enc |-> "UTF8", err |-> FALSE]
    ELSE [enc |-> "none", err |-> TRUE]

\* the candidates tried, in order, when no encoding is named (main.go 90-96)
encodings == <<"ShiftJIS", "EUCJP", "ISO2022JP", "UTF16LE", "UTF16BE">>

\* does candidate i decode data without error into valid UTF-8 (main.go 101)
CandidateOk(i, data) ==
    /\ ~DecoderBytes(encodings[i], data).err
    /\ Valid(DecoderBytes(encodings[i], data).result)

NoError == "nil"

\* main.go 71-82: the encoding named by the flag is forced
ExplicitDecode(data, encodingName) ==
    IF getEncodingByName(encodingName).err
    THEN [text |-> <<>>, err |-> "unsupported encoding", warned |-> FALSE]
    ELSE LET d == DecoderBytes(getEncodingByName(encodingName).enc, data) IN
         IF d.err
         THEN [text |-> <<>>, err |-> "decode failure", warned |-> FALSE]
         ELSE [text |-> d.result, err |-> NoError, warned |-> FALSE]

\* main.go 89-108: the first candidate that decodes to valid UTF-8, else the
\* bytes as they are, with a warning
TryCandidates(data) ==
    IF \E i \in 1..Len(encodings) : CandidateOk(i, data)
    THEN LET i == CHOOSE k \in 1..Len(encodings) :
                      CandidateOk(k, data) /\ \A j \in 1..(k - 1) : ~CandidateOk(j, data)
         IN  [text |-> DecoderBytes(encodings[i], data).result,
              err |-> NoError, warned |-> FALSE]
    ELSE [text |-> data, err |-> NoError, warned |-> TRUE]

\* a resolver that goes to the candidates without the utf8.Valid test
detectWithoutValidCheck(data, encodingName) ==
    IF encodingName # "" THEN ExplicitDecode(data, encodingName)
    ELSE TryCandidates(data)

\* detectAndConvertEncoding: [text, err, warned]
detectAndConvertEncoding(data, encodingName) ==
    IF encodingName # "" THEN ExplicitDecode(data, encodingName)
    ELSE IF Valid(data) THEN [text |-> data, err |-> NoError, warned |-> FALSE]
    ELSE TryCandidates(data)

(***************************************************************************)
(* Inputs of the runs: byte samples and encoding names.                     *)
(***************************************************************************)
\* file contents: empty, "A", U+00E9 in UTF-8, a lone 0xFF, hiragana A in
\* Shift-JIS, the same in EUC-JP, "A" in UTF-16LE with a BOM, "A" then 0xFF
Samples ==
    { <<>>, <<65>>, <<195, 169>>, <<255>>, <<130, 160>>, <<164, 162>>,
      <<255, 254, 65, 0>>, <<65, 255>> }

\* values of the -encoding flag ("" : not given)
EncodingNames ==
    {"", "UTF-8", "utf8", "Shift-JIS", "sjis", "euc-jp", "iso-2022-jp", "utf-16le",
     "utf-16be"}

\* the pairs whose decoding the cut-down tables cover (U+00E9 in UTF-8 read as
\* EUC-JP is a kanji outside them)
Covered(data, encodingName) ==
    ~(getEncodingByName(encodingName).enc = "EUCJP" /\ data = <<195, 169>>)


(***************************************************************************)
(* File names and the scanned tree.                                        *)
(***************************************************************************)
\* the characters of names and patterns, in byte order
Chars ==
    <<" ", "!", "#", "*", ",", ".", "/", "a", "b", "c", "d", "e", "g", "h", "i",
      "l", "n", "o", "p", "r", "s", "t", "u", "x", "y">>

Ord(c) == CHOOSE i \in 1..Len(Chars) : Chars[i] = c

\* byte-wise string order, as sort.Strings compares names
RECURSIVE StrLess(_, _)
StrLess(a, b) ==
    IF b = <<>> THEN FALSE
    ELSE IF a = <<>> THEN TRUE
    ELSE IF a[1] # b[1] THEN Ord(a[1]) < Ord(b[1])
    ELSE StrLess(Tail(a), Tail(b))

\* readDirNames' sort.Strings: the names of a set, ascending
RECURSIVE SortNames(_)
SortNames(S) ==
    IF S = {} THEN <<>>
    ELSE LET m == CHOOSE x \in S : \A y \in S \ {x} : StrLess(x, y)
         IN  <<m>> \o SortNames(S \ {m})

GitignoreName == <<".", "g", "i", "t", "i", "g", "n", "o", "r", "e">>
DotGit    == <<".", "g", "i", "t">>
HiddenPy  == <<".", "h", ".", "p", "y">>
APy       == <<"a", ".", "p", "y">>
BTxt      == <<"b", ".", "t", "x", "t">>
Build     == <<"b", "u", "i", "l", "d">>
OutPy     == <<"o", "u", "t", ".", "p", "y">>
Sub       == <<"s", "u", "b">>
DPy       == <<"d", ".", "p", "y">>
CPy       == <<"c", ".", "p", "y">>

\* the directories and files below the root, by root-relative segments; the
\* root is <<>>.  .gitignore exists only in the runs that have one.
Dirs == { <<>>, <<DotGit>>, <<Build>>, <<Build, Sub>> }

Files(hasGitignore) ==
    { <<DotGit, CPy>>, <<HiddenPy>>, <<APy>>, <<BTxt>>, <<Build, OutPy>>,
      <<Build, Sub, DPy>> }
    \cup (IF hasGitignore THEN { <<GitignoreName>> } ELSE {})

Entries(hasGitignore) == Dirs \cup Files(hasGitignore)

IsDir(rel) == rel \in Dirs

\* is a a proper ancestor of b
IsAncestor(a, b) == Len(a) < Len(b) /\ SubSeq(b, 1, Len(a)) = a

\* the names os.ReadDir finds in a directory, sorted
readDirNames(dir, hasGitignore) ==
    SortNames({ Last(e) : e \in { x \in Entries(hasGitignore) :
                                      Len(x) = Len(dir) + 1 /\ IsAncestor(dir, x) } })

\* filepath.Ext: the suffix of the last segment from its last dot, "" if none
Ext(path) ==
    LET name == Last(path)
        dots == { i \in 1..Len(name) : name[i] = "." }
    IN  IF dots = {} THEN <<>>
        ELSE SubSeq(name, CHOOSE i \in dots : \A j \in dots : j <= i, Len(name))


\* the ASCII codes of Chars, and a string of characters as bytes
Codes ==
    <<32, 33, 35, 42, 44, 46, 47, 97, 98, 99, 100, 101, 103, 104, 105,
      108, 110, 111, 112, 114, 115, 116, 117, 120, 121>>

BytesOf(str) == [i \in 1..Len(str) |-> Codes[Ord(str[i])]]

(***************************************************************************)
(* extensionsFlag.Set (main.go 26-36, 323-333)                             *)
(***************************************************************************)
\* one part of a -e value: trimmed, and given a leading dot if it has none
NormalizeExt(part) ==
    LET t == TrimSpace(part) IN IF HasPrefix(t, <<".">>) THEN t ELSE <<".">> \o t

RECURSIVE NormalizeAll(_)
NormalizeAll(parts) ==
    IF parts = <<>> THEN <<>>
    ELSE <<NormalizeExt(Head(parts))>> \o NormalizeAll(Tail(parts))

\* e.Set(value): e with the value's comma-separated parts appended
Set(e, value) == e \o NormalizeAll(Split(value, ","))

\* flag.Parse calling Set once per -e, then the default (main.go 250-252)
RECURSIVE ParseExts(_, _)
ParseExts(e, values) ==
    IF values = <<>> THEN e ELSE ParseExts(Set(e, Head(values)), Tail(values))

DefaultExts(e) == IF Len(e) = 0 THEN << <<".", "p", "y">> >> ELSE e

(***************************************************************************)
(* The ignore-rule matcher: loadGitignorePatterns (main.go 204-234) and    *)
(* go-git's gitignore.ParsePattern / Matcher.Match it calls.               *)
(***************************************************************************)
StarStar == <<"*", "*">>

\* gitignore.ParsePattern(line, nil)
ParsePattern(line) ==
    LET inclusion == HasPrefix(line, <<"!">>)
        p1 == IF inclusion THEN Tail(line) ELSE line
        p2 == TrimRight(p1, " ")
        dirOnly == HasSuffix(p2, <<"/">>)
        p3 == IF dirOnly THEN Front(p2) ELSE p2
    IN  [inclusion |-> inclusion, dirOnly |-> dirOnly,
         isGlob |-> Contains(p3, "/"), pattern |-> Split(p3, "/")]

\* the scanner loop of loadGitignorePatterns: blank and comment lines skipped
RECURSIVE ParseLines(_)
ParseLines(lines) ==
    IF lines = <<>> THEN <<>>
    ELSE IF TrimSpace(Head(lines)) = <<>> \/ HasPrefix(Head(lines), <<"#">>)
         THEN ParseLines(Tail(lines))
         ELSE <<ParsePattern(Head(lines))>> \o ParseLines(Tail(lines))

\* filepath.Match for patterns of literal characters and "*"
RECURSIVE fpMatch(_, _)
fpMatch(pat, name) ==
    IF pat = <<>> THEN name = <<>>
    ELSE IF pat[1] = "*"
         THEN \E k \in 0..Len(name) : fpMatch(Tail(pat), SubSeq(name, k + 1, Len(name)))
         ELSE name # <<>> /\ pat[1] = name[1] /\ fpMatch(Tail(pat), Tail(name))

\* pattern.simpleNameMatch: the pattern's one name against every segment
simpleNameMatch(p, path, isDir) ==
    /\ \E i \in 1..Len(path) : fpMatch(p.pattern[1], path[i])
    /\ LET i == CHOOSE k \in 1..Len(path) :
                    /\ fpMatch(p.pattern[1], path[k])
                    /\ \A j \in 1..(k - 1) : ~fpMatch(p.pattern[1], path[j])
       IN  ~(p.dirOnly /\ ~isDir /\ i = Len(path))

\* the loop of pattern.globMatch from segment i on: [matched, path left]
RECURSIVE globLoop(_, _, _, _, _)
globLoop(pat, i, path, matched, canTraverse) ==
    IF i > Len(pat) THEN [matched |-> matched, path |-> path]
    ELSE IF pat[i] = <<>> THEN globLoop(pat, i + 1, path, matched, FALSE)
    ELSE IF pat[i] = StarStar
         THEN IF i = Len(pat) THEN [matched |-> matched, path |-> path]
              ELSE globLoop(pat, i + 1, path, matched, TRUE)
    ELSE IF \E k \in 1..(Len(pat[i]) - 1) : SubSeq(pat[i], k, k + 1) = StarStar
         THEN [matched |-> FALSE, path |-> <<>>]
    ELSE IF path = <<>> THEN [matched |-> FALSE, path |-> <<>>]
    ELSE IF canTraverse
         THEN IF \E k \in 1..Len(path) : fpMatch(pat[i], path[k])
              THEN LET k == CHOOSE n \in 1..Len(path) :
                                /\ fpMatch(pat[i], path[n])
                                /\ \A j \in 1..(n - 1) : ~fpMatch(pat[i], path[j])
                   IN  globLoop(pat, i + 1, SubSeq(path, k + 1, Len(path)), TRUE, FALSE)
              ELSE globLoop(pat, i + 1, <<>>, FALSE, FALSE)
    ELSE IF ~fpMatch(pat[i], path[1])
         THEN [matched |-> FALSE, path |-> <<>>]
    ELSE globLoop(pat, i + 1, Tail(path), TRUE, FALSE)

\* pattern.globMatch
globMatch(p, path, isDir) ==
    LET r == globLoop(p.pattern, 1, path, FALSE, FALSE)
    IN  r.matched /\ ~(p.dirOnly /\ ~isDir /\ r.path = <<>>)

\* pattern.Match with an empty domain: "NoMatch", "Exclude" or "Include"
PatternMatch(p, path, isDir) ==
    IF Len(path) = 0 THEN "NoMatch"
    ELSE IF p.isGlob /\ ~globMatch(p, path, isDir) THEN "NoMatch"
    ELSE IF ~p.isGlob /\ ~simpleNameMatch(p, path, isDir) THEN "NoMatch"
    ELSE IF p.inclusion THEN "Include" ELSE "Exclude"

\* matcher.Match: the last pattern that matches decides
Match(ps, path, isDir) ==
    /\ \E i \in 1..Len(ps) : PatternMatch(ps[i], path, isDir) # "NoMatch"
    /\ LET i == CHOOSE k \in 1..Len(ps) :
                    /\ PatternMatch(ps[k], path, isDir) # "NoMatch"
                    /\ \A j \in (k + 1)..Len(ps) : PatternMatch(ps[j], path, isDir) = "NoMatch"
       IN  PatternMatch(ps[i], path, isDir) = "Exclude"

NoMatcher == [present |-> FALSE, ps |-> <<>>]

\* matcher != nil && matcher.Match(...)  (main.go 142)
MatcherExcludes(m, path, isDir) == m.present /\ Match(m.ps, path, isDir)


(***************************************************************************)
(* State.                                                                  *)
(***************************************************************************)
VARIABLES
    variant,        \* "gitignore" (main.go 1-289) or "plain" (main.go 290-447)
    rootName,       \* the base name of absInputPath
    args,           \* the command line: [e, encoding, h]
    gitignoreFile,  \* <root>/.gitignore: [state, lines]
    fault,          \* the entry the file system fails on: [kind, path]
    special,        \* the file whose bytes vary: [path, data]
    pc,             \* where main is
    exts,           \* main's exts
    matcher,        \* main's matcher
    todo,           \* filepath.Walk: the entries still to visit, in order
    filesContent,   \* collectFilesContent's map: absolute path -> text
    err,            \* the error filepath.Walk returns
    stderr,         \* the messages written to os.Stderr
    instructions,   \* main's instructions buffer
    linesRead,      \* how many lines scanner.Scan has delivered
    stdout,         \* what was printed to os.Stdout
    exitCode,       \* the process exit status, -1 while running
    resolved,       \* the resolver called on its own: [data, encodingName, out]
    assembled       \* createPrompt called on its own: the prompts returned

vars ==
    <<variant, rootName, args, gitignoreFile, fault, special, pc, exts, matcher,
      todo, filesContent, err, stderr, instructions, linesRead, stdout, exitCode,
      resolved, assembled>>

inputs == <<variant, rootName, args, gitignoreFile, fault, special>>

(***************************************************************************)
(* The inputs of a run.                                                    *)
(***************************************************************************)
Variants == {"gitignore", "plain"}

\* visible and hidden root directories
RootNames == { <<"r">>, <<".", "r">> }

\* the values of the -e flags: none; "py"; ".txt, py"; "."; "go"
ExtArgs ==
    { <<>>,
      << <<"p", "y">> >>,
      << <<".", "t", "x", "t", ",", " ", "p", "y">> >>,
      << <<".">> >>,
      << <<"g", "o">> >> }

\* the -encoding values of whole runs
RunEncodings == {"", "UTF-8", "Shift-JIS", "utf-16le", "latin1"}

\* .gitignore contents, as lines
GitignoreLines ==
    { << Build \o <<"/">> >>,
      << Build \o <<"/">>, <<"!">> \o OutPy >>,
      << <<"#", " ", "c">>, <<>>, <<" ">>, Sub >>,
      << <<"*", ".", "p", "y">>, <<"!">> \o APy >>,
      << Build \o <<"/">> \o Sub \o <<"/">>, <<"!">> \o DPy >>,
      << <<"*">>, <<"!">> \o APy >> }

GitignoreFiles ==
    { [state |-> "absent", lines |-> <<>>], [state |-> "unreadable", lines |-> <<>>] }
    \cup { [state |-> "present", lines |-> l] : l \in GitignoreLines }

\* at most one entry fails: Lstat, the directory read, or os.ReadFile
Faults ==
    { [kind |-> "none", path |-> <<>>],
      [kind |-> "lstat", path |-> <<>>],
      [kind |-> "lstat", path |-> <<APy>>],
      [kind |-> "lstat", path |-> <<Build>>],
      [kind |-> "readdir", path |-> <<Build>>],
      [kind |-> "read", path |-> <<APy>>] }

Specials == { [path |-> p, data |-> d] : p \in { <<APy>>, <<Build, OutPy>> }, d \in Samples }

\* the lines standard input can deliver: "x" and the empty line
StdinLines == { <<120>>, <<>> }

HasGitignore == gitignoreFile.state # "absent"

RECURSIVE JoinLines(_)
JoinLines(lines) ==
    IF lines = <<>> THEN <<>> ELSE BytesOf(Head(lines)) \o <<10>> \o JoinLines(Tail(lines))

\* the bytes of a file
DataOf(rel) ==
    IF rel = special.path THEN special.data
    ELSE IF rel = <<GitignoreName>> THEN JoinLines(gitignoreFile.lines)
    ELSE <<65>>

LstatFails(rel) == fault.kind = "lstat" /\ fault.path = rel

ReadDirFails(rel) == fault.kind = "readdir" /\ fault.path = rel

ReadFileFails(rel) ==
    \/ fault.kind = "read" /\ fault.path = rel
    \/ gitignoreFile.state = "unreadable" /\ rel = <<GitignoreName>>

\* info.Name()
Name(rel) == IF rel = <<>> THEN rootName ELSE Last(rel)

\* the path the callback is given
AbsPath(rel) == <<rootName>> \o rel

\* strings.Split(filepath.Rel(absInputPath, path), separator): the root is "."
RelSegments(rel) == IF rel = <<>> THEN << <<".">> >> ELSE rel

EmptyMap == [p \in {} |-> <<>>]

Put(fc, path, text) == (path :> text) @@ fc


(***************************************************************************)
(* The walk callback of collectFilesContent.  It returns "nil" or          *)
(* "SkipDir" to filepath.Walk; any other value would be an error that      *)
(* stops the walk.                                                         *)
(***************************************************************************)
Result(ret, fc, msg) == [ret |-> ret, fc |-> fc, msg |-> msg]

\* a callback that hands the access error back to filepath.Walk
OnAccessErrorReturned == "access error"

\* main.go 116-119 / 340-343: an entry that cannot be accessed
OnAccessError == "nil"

\* a callback that passes over a hidden directory without pruning it
HiddenDirNotPruned == "nil"

\* main.go 131-133: a hidden directory
HiddenDirAction == "SkipDir"

\* main.go 134-137: is a hidden file skipped
HiddenFileSkipped(name) == name # GitignoreName

\* a callback that passes over an excluded directory without pruning it
IgnoredNotPruned(isDir) == "nil"

\* main.go 144-148: an entry the matcher excludes
IgnoredAction(isDir) == IF isDir THEN "SkipDir" ELSE "nil"

\* an extension filter that lets every file through
ExtensionNotChecked(targetExtensions, path) == TRUE

\* main.go 158-162: the extension filter with its "." sentinel
ExtensionPasses(targetExtensions, path) ==
    \/ Contains(targetExtensions, <<".">>)
    \/ Contains(targetExtensions, Ext(path))

\* a callback that hands the read error back to filepath.Walk
OnReadErrorReturned == "read error"

\* main.go 166-169 / 365-368: os.ReadFile failed
OnReadError == "nil"

\* main.go 173-176: the resolver failed
OnConvertError == "nil"

\* main.go 115-180, called on the entry rel; accessErr is the err argument
WalkFn(rel, accessErr, fc) ==
    IF accessErr THEN Result(OnAccessError, fc, "access error")
    ELSE IF HasPrefix(Name(rel), <<".">>) /\ IsDir(rel)
         THEN Result(HiddenDirAction, fc, "")
    ELSE IF HasPrefix(Name(rel), <<".">>) /\ HiddenFileSkipped(Name(rel))
         THEN Result("nil", fc, "")
    ELSE IF MatcherExcludes(matcher, RelSegments(rel), IsDir(rel))
         THEN Result(IgnoredAction(IsDir(rel)), fc, "")
    ELSE IF IsDir(rel) THEN Result("nil", fc, "")
    ELSE IF ~ExtensionPasses(exts, AbsPath(rel)) THEN Result("nil", fc, "")
    ELSE IF ReadFileFails(rel) THEN Result(OnReadError, fc, "read error")
    ELSE LET c == detectAndConvertEncoding(DataOf(rel), args.encoding) IN
         IF c.err # NoError THEN Result(OnConvertError, fc, "conversion error")
         ELSE Result("nil", Put(fc, AbsPath(rel), c.text),
                     IF c.warned THEN "encoding not detected" ELSE "")

\* main.go 304
ignoreDirs == <<>>

\* main.go 346-348: a hidden entry, file or directory
PlainHiddenAction == "nil"

\* main.go 359-361: the extension filter
PlainExtensionPasses(targetExtensions, path) == Contains(targetExtensions, Ext(path))

\* main.go 339-372
PlainWalkFn(rel, accessErr, fc) ==
    IF accessErr THEN Result(OnAccessError, fc, "access error")
    ELSE IF HasPrefix(Name(rel), <<".">>) THEN Result(PlainHiddenAction, fc, "")
    ELSE IF IsDir(rel)
         THEN Result(IF Contains(ignoreDirs, Name(rel)) THEN "SkipDir" ELSE "nil", fc, "")
    ELSE IF ~PlainExtensionPasses(exts, AbsPath(rel)) THEN Result("nil", fc, "")
    ELSE IF ReadFileFails(rel) THEN Result(OnReadError, fc, "read error")
    ELSE Result("nil", Put(fc, AbsPath(rel), DataOf(rel)), "")

Callback(rel, accessErr, fc) ==
    IF variant = "gitignore" THEN WalkFn(rel, accessErr, fc)
    ELSE PlainWalkFn(rel, accessErr, fc)

(***************************************************************************)
(* filepath.Walk                                                           *)
(***************************************************************************)
\* the entries of a directory, as the paths walk will visit, in order
ChildPaths(dir) ==
    LET names == readDirNames(dir, HasGitignore)
    IN  [i \in 1..Len(names) |-> dir \o <<names[i]>>]

\* the rest of the work list once the directory holding rel is abandoned
RECURSIVE DropSiblings(_, _)
DropSiblings(rel, rest) ==
    IF rest # <<>> /\ Len(Head(rest)) = Len(rel) /\ Front(Head(rest)) = Front(rel)
    THEN DropSiblings(rel, Tail(rest))
    ELSE rest

\* what Walk does with the callback's return value r for entry rel:
\* [todo, err] after the visit
AfterVisit(rel, r, rest) ==
    LET descend == /\ IsDir(rel) /\ ~LstatFails(rel) /\ ~ReadDirFails(rel)
                   /\ r = "nil"
    IN  IF descend THEN [todo |-> ChildPaths(rel) \o rest, err |-> NoError]
        ELSE IF r = "nil" THEN [todo |-> rest, err |-> NoError]
        ELSE IF r = "SkipDir"
             THEN IF rel = <<>> \/ IsDir(rel) \/ LstatFails(rel)
                  THEN [todo |-> rest, err |-> NoError]
                  ELSE [todo |-> DropSiblings(rel, rest), err |-> NoError]
        ELSE [todo |-> <<>>, err |-> r]

Log(msg, rel) == IF msg = "" THEN stderr ELSE Append(stderr, [msg |-> msg, path |-> rel])


(***************************************************************************)
(* createPrompt (main.go 186-202, 378-394).  The prompt is the sequence of *)
(* the pieces written to the strings.Builder; a piece is a literal of the  *)
(* template, the header of a file (the literal with the path in it) or      *)
(* bytes inserted verbatim.                                                *)
(***************************************************************************)
Lit(text) == [lit |-> text, path |-> <<>>, bytes |-> <<>>]

Header(path) ==
    [lit |-> "----------\n[File]: %s\n[Content Start]\n", path |-> path, bytes |-> <<>>]

Verbatim(bytes) == [lit |-> "", path |-> <<>>, bytes |-> bytes]

Preamble ==
    << Lit("<below are all the file contents of the target repository>\n"),
       Lit("<referring to them, change the repository as instructed below>\n\n") >>

ContentEnd == Lit("\n[Content End]\n\n")

Separator == Lit("----------\n<the instructions follow>:\n")

\* every order in which `range` may deliver the keys of a map
RECURSIVE Orders(_)
Orders(S) ==
    IF S = {} THEN { <<>> }
    ELSE UNION { { <<x>> \o o : o \in Orders(S \ {x}) } : x \in S }

\* the loop of main.go 192-196 over the keys in the order `range` delivers them
RECURSIVE Blocks(_, _)
Blocks(fc, order) ==
    IF order = <<>> THEN <<>>
    ELSE << Header(Head(order)), Verbatim(fc[Head(order)]), ContentEnd >>
         \o Blocks(fc, Tail(order))

\* createPrompt, given the iteration order of this call
createPrompt(fc, instr, order) ==
    Preamble \o Blocks(fc, order) \o << Separator, Verbatim(instr) >>

(***************************************************************************)
(* main and collectFilesContent as a state machine.                        *)
(***************************************************************************)
Printed(kind, text) == [kind |-> kind, text |-> text]

\* exitWithError (main.go 43-46)
exitWithError(message) ==
    /\ stderr' = Append(stderr, [msg |-> message, path |-> <<>>])
    /\ exitCode' = 1
    /\ pc' = "exited"

\* a main without the check for an empty map
NoFilesNotChecked(fc) == FALSE

\* main.go 270: is the collected map empty
NoFiles(fc) == Cardinality(DOMAIN fc) = 0

\* main.go 244-247: -h prints the usage and returns
Main_Help ==
    /\ pc = "start" /\ args.h
    /\ stdout' = Append(stdout, Printed("usage", <<>>))
    /\ exitCode' = 0
    /\ pc' = "done"
    /\ UNCHANGED <<inputs, exts, matcher, todo, filesContent, err, stderr,
                   instructions, linesRead, resolved, assembled>>

\* main.go 237-257: the flags are parsed and the default extension applied
Main_ParseFlags ==
    /\ pc = "start" /\ ~args.h
    /\ exts' = DefaultExts(ParseExts(<<>>, args.e))
    /\ pc' = IF variant = "gitignore" THEN "loadGitignore" ELSE "collect"
    /\ UNCHANGED <<inputs, matcher, todo, filesContent, err, stderr, instructions,
                   linesRead, stdout, exitCode, resolved, assembled>>

\* main.go 260-263 with loadGitignorePatterns (204-234)
Main_LoadGitignore ==
    /\ pc = "loadGitignore"
    /\ IF gitignoreFile.state = "unreadable"
       THEN /\ exitWithError("failed to load .gitignore")
            /\ UNCHANGED matcher
       ELSE /\ matcher' = IF gitignoreFile.state = "absent" THEN NoMatcher
                          ELSE [present |-> TRUE, ps |-> ParseLines(gitignoreFile.lines)]
            /\ pc' = "collect"
            /\ UNCHANGED <<stderr, exitCode>>
    /\ UNCHANGED <<inputs, exts, todo, filesContent, err, instructions, linesRead,
                   stdout, resolved, assembled>>

\* main.go 113-115: collectFilesContent makes the map and calls filepath.Walk
Collect_Start ==
    /\ pc = "collect"
    /\ filesContent' = EmptyMap
    /\ todo' = << <<>> >>
    /\ pc' = "walk"
    /\ UNCHANGED <<inputs, exts, matcher, err, stderr, instructions, linesRead,
                   stdout, exitCode, resolved, assembled>>

\* filepath.Walk visits the next entry and calls the callback on it
Walk_Visit ==
    /\ pc = "walk" /\ todo # <<>>
    /\ LET rel == Head(todo)
           cb  == Callback(rel, LstatFails(rel) \/ (IsDir(rel) /\ ReadDirFails(rel)),
                           filesContent)
           nxt == AfterVisit(rel, cb.ret, Tail(todo))
       IN  /\ filesContent' = cb.fc
           /\ stderr' = Log(cb.msg, rel)
           /\ todo' = nxt.todo
           /\ err' = nxt.err
    /\ UNCHANGED <<inputs, pc, exts, matcher, instructions, linesRead, stdout,
                   exitCode, resolved, assembled>>

\* main.go 182: filepath.Walk is over and collectFilesContent returns
Collect_Return ==
    /\ pc = "walk" /\ todo = <<>>
    /\ pc' = "collected"
    /\ UNCHANGED <<inputs, exts, matcher, todo, filesContent, err, stderr,
                   instructions, linesRead, stdout, exitCode, resolved, assembled>>

\* main.go 266-274: the two fatal checks, then the request for instructions
Main_CheckCollected ==
    /\ pc = "collected"
    /\ IF err # NoError
       THEN exitWithError("error while collecting file contents") /\ UNCHANGED stdout
       ELSE IF NoFiles(filesContent)
       THEN exitWithError("no valid files found") /\ UNCHANGED stdout
       ELSE /\ stdout' = Append(stdout, Printed("enter instructions", <<>>))
            /\ pc' = "scan"
            /\ UNCHANGED <<stderr, exitCode>>
    /\ UNCHANGED <<inputs, exts, matcher, todo, filesContent, err, instructions,
                   linesRead, resolved, assembled>>

\* main.go 277-280: one line of standard input is appended with a line break
Main_ScanLine ==
    /\ pc = "scan" /\ linesRead < MaxLines
    /\ \E line \in StdinLines : instructions' = instructions \o line \o <<10>>
    /\ linesRead' = linesRead + 1
    /\ UNCHANGED <<inputs, pc, exts, matcher, todo, filesContent, err, stderr,
                   stdout, exitCode, resolved, assembled>>

\* main.go 282-285: reading standard input failed
Main_ScanError ==
    /\ pc = "scan"
    /\ stderr' = Append(stderr, [msg |-> "stdin read error", path |-> <<>>])
    /\ exitCode' = 1
    /\ pc' = "exited"
    /\ UNCHANGED <<inputs, exts, matcher, todo, filesContent, err, instructions,
                   linesRead, stdout, resolved, assembled>>

\* main.go 287-288: end of input; the prompt is assembled and printed
Main_Assemble ==
    /\ pc = "scan"
    /\ \E order \in Orders(DOMAIN filesContent) :
           stdout' = Append(stdout,
                            Printed("prompt", createPrompt(filesContent, instructions, order)))
    /\ exitCode' = 0
    /\ pc' = "done"
    /\ UNCHANGED <<inputs, exts, matcher, todo, filesContent, err, stderr,
                   instructions, linesRead, resolved, assembled>>

Unused == [called |-> FALSE]

Init ==
    /\ variant \in Variants
    /\ rootName \in RootNames
    /\ args \in [e : ExtArgs, encoding : RunEncodings, h : BOOLEAN]
    /\ gitignoreFile \in GitignoreFiles
    /\ fault \in Faults
    /\ special \in Specials
    \* the plain build has no -encoding flag and never reads .gitignore
    /\ variant = "plain" =>
           /\ args.encoding = ""
           /\ gitignoreFile.state # "unreadable"
           /\ gitignoreFile.lines \in { <<>>, << Build \o <<"/">> >> }
    \* -h is tried on the default command line
    /\ args.h => args.e = <<>> /\ args.encoding = ""
    \* a run has at most one anomaly: a failing entry or unusual bytes
    /\ fault.kind # "none" => special.data = <<65>>
    /\ Covered(special.data, args.encoding)
    /\ pc = "start"
    /\ exts = <<>>
    /\ matcher = NoMatcher
    /\ todo = <<>>
    /\ filesContent = EmptyMap
    /\ err = NoError
    /\ stderr = <<>>
    /\ instructions = <<>>
    /\ linesRead = 0
    /\ stdout = <<>>
    /\ exitCode = -1
    /\ resolved = Unused
    /\ assembled = <<>>

Next ==
    \/ Main_Help
    \/ Main_ParseFlags
    \/ Main_LoadGitignore
    \/ Collect_Start
    \/ Walk_Visit
    \/ Collect_Return
    \/ Main_CheckCollected
    \/ Main_ScanLine
    \/ Main_ScanError
    \/ Main_Assemble

Spec == Init /\ [][Next]_vars


(***************************************************************************)
(* The resolver on its own: every sample under every encoding name.        *)
(***************************************************************************)
\* the program itself does not run in the specifications of single functions
Idle ==
    /\ variant = "gitignore"
    /\ rootName = <<"r">>
    /\ args = [e |-> <<>>, encoding |-> "", h |-> FALSE]
    /\ gitignoreFile = [state |-> "absent", lines |-> <<>>]
    /\ fault = [kind |-> "none", path |-> <<>>]
    /\ special = [path |-> <<APy>>, data |-> <<65>>]
    /\ pc = "idle"
    /\ exts = <<>>
    /\ matcher = NoMatcher
    /\ todo = <<>>
    /\ err = NoError
    /\ stderr = <<>>
    /\ linesRead = 0
    /\ stdout = <<>>
    /\ exitCode = -1

InitResolver ==
    /\ Idle
    /\ filesContent = EmptyMap
    /\ instructions = <<>>
    /\ assembled = <<>>
    /\ resolved \in [called : {FALSE}, data : Samples, encodingName : EncodingNames,
                     out : {[text |-> <<>>, err |-> NoError, warned |-> FALSE]}]
    /\ Covered(resolved.data, resolved.encodingName)

\* detectAndConvertEncoding(data, encodingName) is called
Resolve ==
    /\ pc = "idle" /\ ~resolved.called
    /\ resolved' = [resolved EXCEPT
                        !.called = TRUE,
                        !.out = detectAndConvertEncoding(resolved.data, resolved.encodingName)]
    /\ UNCHANGED <<inputs, pc, exts, matcher, todo, filesContent, err, stderr,
                   instructions, linesRead, stdout, exitCode, assembled>>

NextResolver == Resolve

SpecResolver == InitResolver /\ [][NextResolver]_vars

(***************************************************************************)
(* createPrompt on its own, called twice on the same arguments.            *)
(***************************************************************************)
PromptPaths == { <<<<"r">>, APy>>, <<<<"r">>, BTxt>>, <<<<"r">>, Build, OutPy>> }

PromptTexts == { <<65>>, <<>> }

PromptInstructions == { <<>>, <<120, 10>>, <<120, 10, 10>> }

InitAssemble ==
    /\ Idle
    /\ filesContent \in UNION { [K -> PromptTexts] : K \in SUBSET PromptPaths }
    /\ instructions \in PromptInstructions
    /\ assembled = <<>>
    /\ resolved = Unused

\* createPrompt(filesContent, instructions) is called
Assemble ==
    /\ pc = "idle" /\ Len(assembled) < 2
    /\ \E order \in Orders(DOMAIN filesContent) :
           assembled' = Append(assembled, createPrompt(filesContent, instructions, order))
    /\ UNCHANGED <<inputs, pc, exts, matcher, todo, filesContent, err, stderr,
                   instructions, linesRead, stdout, exitCode, resolved>>

NextAssemble == Assemble

SpecAssemble == InitAssemble /\ [][NextAssemble]_vars


(***************************************************************************)
(* Properties.                                                             *)
(***************************************************************************)
Keys == DOMAIN filesContent

\* the root-relative segments of a key of the map
RelOf(key) == Tail(key)

Hidden(name) == HasPrefix(name, <<".">>)

RootVisited == ~Hidden(rootName) /\ ~LstatFails(<<>>) /\ ~ReadDirFails(<<>>)

\* C1: no key of the File Content Map lies beneath a directory whose name
\* starts with "." (the root directory included), whatever its own name.
C1_NoFileBeneathHiddenDir ==
    \A key \in Keys : \A i \in 1..(Len(key) - 1) : ~Hidden(key[i])

\* the directories the matcher of this run declares excluded
ExcludedDirs == { d \in Dirs : MatcherExcludes(matcher, RelSegments(d), TRUE) }

\* C2: no key of the File Content Map is a descendant of a directory whose
\* root-relative path the matcher declares excluded.
C2_ExcludedDirPruned ==
    \A key \in Keys : \A d \in ExcludedDirs : ~IsAncestor(d, RelOf(key))

\* C2 witness: the walk is over, it reached a visible directory the matcher
\* excludes, and beneath it lies a file that a later pattern re-includes and
\* that the extension filter accepts; the file is not in the map.
C2_Witness ==
    /\ pc = "collected" /\ variant = "gitignore" /\ RootVisited
    /\ fault.kind = "none" /\ Keys # {}
    /\ \E d \in ExcludedDirs \ { <<>> } : \E f \in Files(HasGitignore) :
           /\ \A a \in Dirs : IsAncestor(a, d) => a \notin ExcludedDirs
           /\ ~Hidden(Name(d))
           /\ IsAncestor(d, f)
           /\ ~MatcherExcludes(matcher, RelSegments(f), FALSE)
           /\ Contains(exts, Ext(f))
           /\ AbsPath(f) \notin Keys

\* C3: when the extension set does not hold the sentinel ".", the extension of
\* every key of the File Content Map is a member of the set.
C3_KeysHaveListedExtension ==
    ~Contains(exts, <<".">>) => \A key \in Keys : Contains(exts, Ext(key))

\* C3 witness: a finished walk without the sentinel that collected a file and
\* passed over b.txt, whose extension is not in the set.
C3_Witness ==
    /\ pc = "collected" /\ RootVisited
    /\ ~Contains(exts, <<".">>) /\ ~Contains(exts, Ext(<<BTxt>>))
    /\ ~MatcherExcludes(matcher, RelSegments(<<BTxt>>), FALSE)
    /\ ~MatcherExcludes(matcher, RelSegments(<<>>), TRUE)
    /\ AbsPath(<<APy>>) \in Keys
    /\ AbsPath(<<BTxt>>) \notin Keys

\* C4: every value stored in the File Content Map is well-formed UTF-8.
C4_ValuesAreValidText == \A key \in Keys : Valid(filesContent[key])

\* C5: the error collectFilesContent returns is non-nil only if the root itself
\* could not be accessed; no failure of an entry below the root, of a file read
\* or of a decode makes it non-nil.
C5_ErrorOnlyForFatalFailure == err # NoError => LstatFails(<<>>)

Logged(msg) == \E i \in 1..Len(stderr) : stderr[i].msg = msg

\* C5 witness: collectFilesContent has returned nil although an entry below the
\* root could not be accessed, a file could not be read or a decode failed.
C5_Witness ==
    /\ pc = "collected" /\ err = NoError
    /\ \/ \E i \in 1..Len(stderr) :
              stderr[i].msg = "access error" /\ stderr[i].path # <<>>
       \/ Logged("read error")
       \/ Logged("conversion error")


\* does file f pass every filter of the gitignore build, with every directory
\* above it reached and read
Passes(f) ==
    /\ \A d \in Dirs : IsAncestor(d, f) =>
           /\ ~LstatFails(d) /\ ~ReadDirFails(d)
           /\ ~Hidden(Name(d))
           /\ ~MatcherExcludes(matcher, RelSegments(d), TRUE)
    /\ ~LstatFails(f)
    /\ Hidden(Name(f)) => Name(f) = GitignoreName
    /\ ~MatcherExcludes(matcher, RelSegments(f), FALSE)
    /\ Contains(exts, <<".">>) \/ Contains(exts, Ext(f))
    /\ ~ReadFileFails(f)
    /\ detectAndConvertEncoding(DataOf(f), args.encoding).err = NoError

\* C6: when the traversal ends, every file that is not beneath a failing entry,
\* passes the hidden, ignore and extension filters, is read and is decoded is a
\* key of the File Content Map, whichever entry failed.
C6_OtherFilesCollected ==
    (variant = "gitignore" /\ pc = "collected") =>
        \A f \in Files(HasGitignore) : Passes(f) => AbsPath(f) \in Keys

\* C6 witness: an entry below the root failed and was logged, and a file that
\* the walk visits after it is in the map when the walk is over.
C6_Witness ==
    /\ variant = "gitignore" /\ pc = "collected"
    /\ fault.kind # "none" /\ fault.path # <<>> /\ stderr # <<>>
    /\ \E f \in Files(HasGitignore) :
           /\ StrLess(fault.path[1], f[1])
           /\ Passes(f)
           /\ AbsPath(f) \in Keys

PromptPrinted == \E i \in 1..Len(stdout) : stdout[i].kind = "prompt"

\* C7: a traversal that ends with an empty map is followed at once by the fatal
\* "no valid files found" exit with status 1, with no line read from standard
\* input and nothing printed; and instructions are read and a prompt is printed
\* only with a non-empty map.
C7_EmptyMapIsFatal ==
    /\ [](PromptPrinted => (Keys # {} /\ pc = "done"))
    /\ []((pc = "scan" \/ linesRead > 0) => Keys # {})
    /\ [][(pc = "collected" /\ Keys = {}) =>
              /\ pc' = "exited"
              /\ exitCode' = 1
              /\ Last(stderr').msg = "no valid files found"
              /\ linesRead' = 0
              /\ stdout' = stdout]_vars

\* C7 witness: the run has ended with the fatal error after a traversal that
\* visited the tree and collected nothing.
C7_Witness ==
    /\ pc = "exited" /\ exitCode = 1 /\ RootVisited
    /\ Last(stderr).msg = "no valid files found"
    /\ Keys = {} /\ linesRead = 0 /\ stdout = <<>>

\* is p the template around one block per entry of fc, in some order
WellFormedPrompt(p, fc, instr) ==
    LET n == Cardinality(DOMAIN fc) IN
    /\ Len(p) = 3 * n + 4
    /\ SubSeq(p, 1, 2) = Preamble
    /\ p[Len(p) - 1] = Separator
    /\ p[Len(p)] = Verbatim(instr)
    /\ \A k \in DOMAIN fc :
           /\ Cardinality({ j \in 1..n : p[3 * j] = Header(k) }) = 1
           /\ \A j \in 1..n : p[3 * j] = Header(k) =>
                  p[3 * j + 1] = Verbatim(fc[k]) /\ p[3 * j + 2] = ContentEnd

\* C8: createPrompt returns the template with exactly one block per map entry
\* and the instructions last, and two calls on the same map and instructions
\* return the same string.
C8_PromptDeterministic ==
    /\ \A i \in 1..Len(assembled) :
           WellFormedPrompt(assembled[i], filesContent, instructions)
    /\ Len(assembled) = 2 => assembled[1] = assembled[2]

\* C9 as stated: the resolver returns every valid UTF-8 input unchanged and
\* without error.
C9_ValidUtf8Unchanged ==
    (resolved.called /\ Valid(resolved.data)) =>
        resolved.out.err = NoError /\ resolved.out.text = resolved.data

\* C9 amended: the resolver returns a valid UTF-8 input unchanged and without
\* error when no encoding is named or the encoding named is UTF-8.
C9_ValidUtf8UnchangedUnlessForced ==
    ( /\ resolved.called /\ Valid(resolved.data)
      /\ \/ resolved.encodingName = ""
         \/ getEncodingByName(resolved.encodingName).enc = "UTF8" ) =>
        resolved.out.err = NoError /\ resolved.out.text = resolved.data

\* C9 witness: the resolver, with no encoding named, has returned a valid
\* multi-byte UTF-8 input as it was.
C9_Witness ==
    /\ resolved.called /\ resolved.encodingName = ""
    /\ Valid(resolved.data) /\ \E i \in 1..Len(resolved.data) : resolved.data[i] >= 128
    /\ resolved.out.err = NoError /\ resolved.out.text = resolved.data

\* C10: in the gitignore build a root directory whose base name starts with "."
\* yields an empty map and a nil error, so the run reads no instructions and
\* ends with the fatal "no valid files found" error.
C10_HiddenRootCollectsNothing ==
    (variant = "gitignore" /\ Hidden(rootName)) =>
        /\ Keys = {} /\ err = NoError
        /\ pc # "scan"
        /\ pc = "done" => args.h
        /\ (pc = "exited" /\ gitignoreFile.state # "unreadable") =>
               exitCode = 1 /\ Last(stderr).msg = "no valid files found"

\* C10 witness: a run on a hidden, accessible root whose tree holds files of the
\* requested extension has ended with the fatal error.
C10_Witness ==
    /\ variant = "gitignore" /\ Hidden(rootName)
    /\ fault.kind = "none" /\ ~matcher.present
    /\ Contains(exts, Ext(<<APy>>))
    /\ pc = "exited" /\ exitCode = 1
    /\ Last(stderr).msg = "no valid files found"

=============================================================================
